---- MODULE Spec2Model ----
(***************************************************************************)
(* PhysicalModeling::DimensionedQuantities (DimensionedQuantities.h).      *)
(*                                                                         *)
(* A dimension is an mpl::vector_c<int, ...> of 20 exponents (8 written    *)
(* out, 12 from DQ_DIMPAD); it is modelled as a 20-tuple of integers.      *)
(* A Quantity<Dimensions, Precision> is a record of its two template       *)
(* arguments and its one data member _value.  A scalar of either precision *)
(* is the pair <<n, d>> standing for n/d: d = 1 for int, any d > 0 for a   *)
(* finite double (taken as the exact real it denotes, rounding is not      *)
(* modelled), and d = 0 for the IEEE values +inf <<1,0>>, -inf <<-1,0>>    *)
(* and NaN <<0,0>>.                                                        *)
(*                                                                         *)
(* What the compiler refuses is as much the library's behaviour as what    *)
(* it computes: an expression that does not compile has the outcome        *)
(* IllFormed, one with undefined behaviour the outcome Undefined.          *)
(***************************************************************************)
EXTENDS Integers, Sequences, FiniteSets, TLC

VARIABLES x, y, op, target, res, nmut

vars == <<x, y, op, target, res, nmut>>

----------------------------------------------------------------------------
(* Scalars *)

Abs(n) == IF n < 0 THEN -n ELSE n

Sgn(n) == IF n < 0 THEN -1 ELSE IF n > 0 THEN 1 ELSE 0

RECURSIVE Gcd(_, _)
Gcd(a, b) == IF b = 0 THEN a ELSE Gcd(b, a % b)

\* the canonical pair of n/d: lowest terms, d >= 0, the sign on n
Norm(n, d) ==
    IF d = 0 THEN <<Sgn(n), 0>>
    ELSE LET g == Gcd(Abs(n), Abs(d))
         IN  <<Sgn(d) * (n \div g), Abs(d) \div g>>

IsFinite(v) == v[2] > 0

\* C++ integer division truncates toward zero
TruncDiv(a, b) == Sgn(a) * Sgn(b) * (Abs(a) \div Abs(b))

Precisions == {"double", "int"}

\* typedef double DefaultPrecision
DefaultPrecision == "double"

\* Precision(): the value-initialized scalar
ValueInit(T) == <<0, 1>>

\* l + r, l - r, l * r on two finite scalars of precision T
ScalarPlus(T, l, r) == Norm(l[1] * r[2] + r[1] * l[2], l[2] * r[2])

ScalarMinus(T, l, r) == Norm(l[1] * r[2] - r[1] * l[2], l[2] * r[2])

ScalarTimes(T, l, r) == Norm(l[1] * r[1], l[2] * r[2])

\* l / r: for double the IEEE quotient (x/0 is an infinity, 0/0 is NaN); for
\* int the truncated quotient, and no value at all when r is 0
ScalarDivides(T, l, r) ==
    IF T = "int"
    THEN <<TruncDiv(l[1], r[1]), 1>>
    ELSE Norm(l[1] * r[2], l[2] * r[1])

IsNaN(v) == v[1] = 0 /\ v[2] = 0

\* l < r and l == r on scalars; every comparison with a NaN but != is false
ScalarLess(l, r) ==
    IF IsNaN(l) \/ IsNaN(r) THEN FALSE
    ELSE IF l[2] = 0 /\ r[2] = 0 THEN l[1] < r[1]
    ELSE l[1] * r[2] < r[1] * l[2]

ScalarEqual(l, r) == ~IsNaN(l) /\ ~IsNaN(r) /\ l[1] = r[1] /\ l[2] = r[2]

\* std::sqrt: exact on the squares of rationals, NaN below zero, and
\* otherwise the (irrational) root, kept symbolic
RECURSIVE IntRoot(_, _)
IntRoot(n, k) == IF k * k >= n THEN k ELSE IntRoot(n, k + 1)

StdSqrt(v) ==
    IF v[1] < 0 THEN <<0, 0>>
    ELSE IF ~IsFinite(v) THEN v
    ELSE LET rn == IntRoot(v[1], 0)
             rd == IntRoot(v[2], 0)
         IN  IF rn * rn = v[1] /\ rd * rd = v[2]
             THEN <<rn, rd>>
             ELSE <<"sqrt", v>>

----------------------------------------------------------------------------
(* Dimensions: namespace dims *)

DQ_DIMPAD == <<0, 0, 0, 0, 0, 0, 0, 0, 0, 0, 0, 0>>

\* Order of dimension elements: Time, Mass, Length, Angle
dimensionless == <<0, 0, 0, 0, 0, 0, 0, 0>> \o DQ_DIMPAD

time == <<1, 0, 0, 0, 0, 0, 0, 0>> \o DQ_DIMPAD

mass == <<0, 1, 0, 0, 0, 0, 0, 0>> \o DQ_DIMPAD

length == <<0, 0, 1, 0, 0, 0, 0, 0>> \o DQ_DIMPAD

angle == <<0, 0, 0, 1, 0, 0, 0, 0>> \o DQ_DIMPAD

area == <<0, 0, 2, 0, 0, 0, 0, 0>> \o DQ_DIMPAD

volume == <<0, 0, 3, 0, 0, 0, 0, 0>> \o DQ_DIMPAD

density == <<0, 1, -3, 0, 0, 0, 0, 0>> \o DQ_DIMPAD

speed == <<-1, 0, 1, 0, 0, 0, 0, 0>> \o DQ_DIMPAD

accel == <<-2, 0, 1, 0, 0, 0, 0, 0>> \o DQ_DIMPAD

ang_speed == <<-1, 0, 0, 1, 0, 0, 0, 0>> \o DQ_DIMPAD

ang_accel == <<-2, 0, 0, 1, 0, 0, 0, 0>> \o DQ_DIMPAD

\* force with the mass exponent left out
force_without_mass == <<-2, 0, 1, 0, 0, 0, 0, 0>> \o DQ_DIMPAD

force == <<-2, 1, 1, 0, 0, 0, 0, 0>> \o DQ_DIMPAD

stiffness == <<-2, 0, 1, 0, 0, 0, 0, 0>> \o DQ_DIMPAD

viscosity == <<-1, 0, 1, 0, 0, 0, 0, 0>> \o DQ_DIMPAD

torque == <<-2, 1, 2, 0, 0, 0, 0, 0>> \o DQ_DIMPAD

ang_stiffness == <<-2, 1, 2, -1, 0, 0, 0, 0>> \o DQ_DIMPAD

ang_viscosity == <<-1, 1, 2, -1, 0, 0, 0, 0>> \o DQ_DIMPAD

moment_of_inertia == <<0, 1, 2, 0, 0, 0, 0, 0>> \o DQ_DIMPAD

\* every typedef of namespace dims
NamedDims ==
    { dimensionless, time, mass, length, angle, area, volume, density,
      speed, accel, ang_speed, ang_accel, force, stiffness, viscosity,
      torque, ang_stiffness, ang_viscosity, moment_of_inertia }

\* namespace dims: each typedef's name and the vector it names
dims ==
    [ dimensionless |-> dimensionless, time |-> time, mass |-> mass,
      length |-> length, angle |-> angle, area |-> area, volume |-> volume,
      density |-> density, speed |-> speed, accel |-> accel,
      ang_speed |-> ang_speed, ang_accel |-> ang_accel, force |-> force,
      stiffness |-> stiffness, viscosity |-> viscosity, torque |-> torque,
      ang_stiffness |-> ang_stiffness, ang_viscosity |-> ang_viscosity,
      moment_of_inertia |-> moment_of_inertia ]

----------------------------------------------------------------------------
(* namespace Internal: the metafunctions on dimensions *)

\* the outcome of a metafunction whose nested ::type does not exist
NoType == << >>

\* a sequence of integral constants, as opposed to a single one
IsSequence(D) == D \in Seq(Int)

\* multiply_dimensions with the operation of divide_dimensions
multiply_dimensions_minus(D1, D2) == [i \in DOMAIN D1 |-> D1[i] - D2[i]]

\* mpl::transform<D1, D2, mpl::plus<_1, _2> >
multiply_dimensions(D1, D2) == [i \in DOMAIN D1 |-> D1[i] + D2[i]]

\* divide_dimensions with the operands of minus exchanged
divide_dimensions_reversed(D1, D2) == [i \in DOMAIN D1 |-> D2[i] - D1[i]]

\* mpl::transform<D1, D2, mpl::minus<_1, _2> >
divide_dimensions(D1, D2) == [i \in DOMAIN D1 |-> D1[i] - D2[i]]

\* mpl::equal<D1, D2>: same length and the same constant at every position
mpl_equal(D1, D2) ==
    /\ Len(D1) = Len(D2)
    /\ \A i \in DOMAIN D1 : D1[i] = D2[i]

\* mpl::divides<N1, N2> is numeric: it is defined on two integral constants
\* and has no ::type when an operand is a sequence
mpl_divides(N1, N2) ==
    IF IsSequence(N1) \/ IsSequence(N2) THEN NoType ELSE TruncDiv(N1, N2)

\* mpl::transform<D, mpl::int_<2>, mpl::divides<_1, _2> >: int_<2> is not a
\* sequence, so this is the unary transform with int_<2> as the operation
\* and divides<_1, _2> as the inserter, which has no ::state
sqrt_dimensions(D) == NoType

\* struct sqrt_dims : mpl::divides<D, mpl::int_<2>::type>
sqrt_dims(D) == mpl_divides(D, 2)

----------------------------------------------------------------------------
(* struct Quantity and the dimensionally-aware operators, as functions from *)
(* operands to the outcome of the expression                                *)

\* explicit Quantity(Precision x) : _value(x)
Quantity(D, T, v) == [kind |-> "quantity", dim |-> D, prec |-> T, value |-> v]

\* a default constructor that leaves _value as it finds it
DefaultQuantity_uninitialized(D, T) == Quantity(D, T, <<7, 1>>)

\* Quantity() : _value()
DefaultQuantity(D, T) == Quantity(D, T, ValueInit(T))

\* the expression does not compile
IllFormed == [kind |-> "ill-formed"]

\* the expression compiles and its evaluation is undefined (a trap)
Undefined == [kind |-> "undefined"]

IsQuantity(q) == q.kind = "quantity"

\* the converting constructor without its BOOST_STATIC_ASSERT
ConvertingConstructor_unchecked(D, T, rhs) ==
    IF ~(rhs.kind = "quantity") THEN rhs
    ELSE IF rhs.prec # T THEN [kind |-> "ill-formed"]
    ELSE [kind |-> "quantity", dim |-> D, prec |-> T, value |-> rhs.value]

\* template <class OtherDimensions> Quantity(Quantity<OtherDimensions,
\* Precision> const& rhs) : _value(rhs.value()), with its BOOST_STATIC_ASSERT
\* of mpl::equal; the same Precision is part of the parameter's type.  An
\* operand that is no value has nothing to convert.
ConvertingConstructor(D, T, rhs) ==
    IF ~IsQuantity(rhs) THEN rhs
    ELSE IF rhs.prec # T THEN IllFormed
    ELSE IF mpl_equal(D, rhs.dim) THEN Quantity(D, T, rhs.value)
    ELSE IllFormed

\* operator+ with a dimension parameter of its own for each operand
operator_plus_two_dimensions(l, r) ==
    IF l.prec = r.prec
    THEN Quantity(l.dim, l.prec, ScalarPlus(l.prec, l.value, r.value))
    ELSE IllFormed

\* Quantity<D, T> operator+(const Quantity<D, T> & l, const Quantity<D, T> & r):
\* D and T are deduced from both arguments and must agree
operator_plus(l, r) ==
    IF l.dim = r.dim /\ l.prec = r.prec
    THEN Quantity(l.dim, l.prec, ScalarPlus(l.prec, l.value, r.value))
    ELSE IllFormed

\* Quantity<D, T> operator-(const Quantity<D, T> & l, const Quantity<D, T> & r)
operator_minus(l, r) ==
    IF l.dim = r.dim /\ l.prec = r.prec
    THEN Quantity(l.dim, l.prec, ScalarMinus(l.prec, l.value, r.value))
    ELSE IllFormed

\* operator* with the result type of operator/
operator_times_divide_dimensions(l, r) ==
    IF l.prec = r.prec
    THEN Quantity(divide_dimensions(l.dim, r.dim), l.prec,
                  ScalarTimes(l.prec, l.value, r.value))
    ELSE IllFormed

\* operator*(Quantity<D1, T> l, Quantity<D2, T> r)
operator_times(l, r) ==
    IF l.prec = r.prec
    THEN Quantity(multiply_dimensions(l.dim, r.dim), l.prec,
                  ScalarTimes(l.prec, l.value, r.value))
    ELSE IllFormed

\* operator/ with the body of operator*
operator_divides_times_body(l, r) ==
    IF l.prec # r.prec THEN {IllFormed}
    ELSE {Quantity(divide_dimensions(l.dim, r.dim), l.prec,
                   ScalarTimes(l.prec, l.value, r.value))}

\* operator/(Quantity<D1, T> l, Quantity<D2, T> r): the set of outcomes.  An
\* int division by zero is undefined: the build traps, or yields some int.
operator_divides(l, r) ==
    IF l.prec # r.prec THEN {IllFormed}
    ELSE IF l.prec = "int" /\ r.value[1] = 0
    THEN {Undefined}
         \cup {Quantity(divide_dimensions(l.dim, r.dim), l.prec, v) :
                  v \in {<<0, 1>>, l.value}}
    ELSE {Quantity(divide_dimensions(l.dim, r.dim), l.prec,
                   ScalarDivides(l.prec, l.value, r.value))}

\* Quantity<typename Internal::sqrt_dims<D>::type, T> sqrt(Quantity<D, T> const& l)
sqrt(l) ==
    LET D == sqrt_dims(l.dim)
    IN  IF D = NoType THEN IllFormed
        ELSE Quantity(D, l.prec, StdSqrt(l.value))

\* operator+= that returns the sum and does not store it
operator_plus_assign_not_stored(self, r) ==
    LET arg == ConvertingConstructor(self.dim, self.prec, r)
        sum == ScalarPlus(self.prec, self.value, arg.value)
    IN  IF ~IsQuantity(arg) THEN [self |-> self, ret |-> arg]
        ELSE [self |-> self, ret |-> Quantity(self.dim, self.prec, sum)]

\* operator+= that takes on the dimension of its argument
operator_plus_assign_retagged(self, r) ==
    LET sum == ScalarPlus(self.prec, self.value, r.value)
    IN  IF self.prec # r.prec THEN [self |-> self, ret |-> IllFormed]
        ELSE [self |-> Quantity(r.dim, self.prec, sum),
              ret  |-> Quantity(r.dim, self.prec, sum)]

\* this_type operator+=(const this_type & r) { return this_type(_value += r._value); }
\* The argument binds to const this_type&, through the converting
\* constructor when it is a Quantity of another dimension type.
\* self is the object afterwards, ret the value returned.
operator_plus_assign(self, r) ==
    LET arg == ConvertingConstructor(self.dim, self.prec, r)
        sum == ScalarPlus(self.prec, self.value, arg.value)
    IN  IF ~IsQuantity(arg) THEN [self |-> self, ret |-> arg]
        ELSE [self |-> Quantity(self.dim, self.prec, sum),
              ret  |-> Quantity(self.dim, self.prec, sum)]

\* this_type operator-=(const this_type & r) { return this_type(_value -= r._value); }
operator_minus_assign(self, r) ==
    LET arg == ConvertingConstructor(self.dim, self.prec, r)
        dif == ScalarMinus(self.prec, self.value, arg.value)
    IN  IF ~IsQuantity(arg) THEN [self |-> self, ret |-> arg]
        ELSE [self |-> Quantity(self.dim, self.prec, dif),
              ret  |-> Quantity(self.dim, self.prec, dif)]

\* self = r.  For an r of self's Precision this is the implicit copy
\* assignment, its argument bound to const this_type& like that of +=.  For
\* an r of another Precision only the member template operator= can take
\* it, and only for the same Dimensions; its body, return (*this)._value =
\* other.value, names a member function without calling it and does not
\* compile once instantiated.
operator_assign(self, r) ==
    LET arg == ConvertingConstructor(self.dim, self.prec, r)
    IN  IF r.prec # self.prec THEN [self |-> self, ret |-> IllFormed]
        ELSE IF ~IsQuantity(arg) THEN [self |-> self, ret |-> arg]
        ELSE [self |-> Quantity(self.dim, self.prec, arg.value),
              ret  |-> Quantity(self.dim, self.prec, arg.value)]

\* the bool a comparison returns
Bool(b) == [kind |-> "bool", value |-> b]

\* the comparison operators are members taking const this_type & r: the
\* argument binds like that of +=, and l is the object they are called on

\* operator< with its operands exchanged
operator_less_exchanged(l, r) ==
    LET arg == ConvertingConstructor(l.dim, l.prec, r)
    IN  IF ~IsQuantity(arg) THEN arg
        ELSE Bool(ScalarLess(arg.value, l.value))

\* bool operator<(const this_type & r) const { return _value < r._value; }
operator_less(l, r) ==
    LET arg == ConvertingConstructor(l.dim, l.prec, r)
    IN  IF ~IsQuantity(arg) THEN arg
        ELSE Bool(ScalarLess(l.value, arg.value))

\* bool operator<=(const this_type & r) const { return _value <= r._value; }
operator_less_equal(l, r) ==
    LET arg == ConvertingConstructor(l.dim, l.prec, r)
    IN  IF ~IsQuantity(arg) THEN arg
        ELSE Bool(ScalarLess(l.value, arg.value) \/ ScalarEqual(l.value, arg.value))

\* bool operator>(const this_type & r) const { return _value > r._value; }
operator_greater(l, r) ==
    LET arg == ConvertingConstructor(l.dim, l.prec, r)
    IN  IF ~IsQuantity(arg) THEN arg
        ELSE Bool(ScalarLess(arg.value, l.value))

\* bool operator>=(const this_type & r) const { return _value >= r._value; }
operator_greater_equal(l, r) ==
    LET arg == ConvertingConstructor(l.dim, l.prec, r)
    IN  IF ~IsQuantity(arg) THEN arg
        ELSE Bool(ScalarLess(arg.value, l.value) \/ ScalarEqual(l.value, arg.value))

\* bool operator==(const this_type & r) const { return _value == r._value; }
operator_equal(l, r) ==
    LET arg == ConvertingConstructor(l.dim, l.prec, r)
    IN  IF ~IsQuantity(arg) THEN arg
        ELSE Bool(ScalarEqual(l.value, arg.value))

\* bool operator!=(const this_type & r) const { return _value != r._value; }
operator_not_equal(l, r) ==
    LET arg == ConvertingConstructor(l.dim, l.prec, r)
    IN  IF ~IsQuantity(arg) THEN arg
        ELSE Bool(~ScalarEqual(l.value, arg.value))

\* Precision & value() { return _value; }, assigned through
value_assign(self, v) == Quantity(self.dim, self.prec, v)

----------------------------------------------------------------------------
(* The state machine: a translation unit that declares two operands and    *)
(* then executes statements on them, one statement per step.               *)
(*   x, y    the operands, declared with typedefs of namespace dims        *)
(*   op      the statement executed last                                   *)
(*   target  the declared type of the object that statement constructs     *)
(*   res     the outcome of that statement's expression                    *)
(*   nmut    how many statements have written x._value                     *)

\* number of writes to x._value in one run
MaxMut == 1

NoTarget == [dim |-> << >>, prec |-> "none"]

NoStatement == [kind |-> "none"]

\* operands of every pair of named dimensions, both DefaultPrecision
TypeSweep ==
    { <<Quantity(D1, DefaultPrecision, <<6, 1>>),
        Quantity(D2, DefaultPrecision, <<3, 1>>)>> :
          D1 \in NamedDims, D2 \in NamedDims }

\* the declarations of the documentation and the tests: a mass and an
\* acceleration, two lengths, an area and a time
ExampleDims == {<<mass, accel>>, <<length, length>>, <<area, time>>}

DoubleLeft == {<<0, 1>>, <<3, 2>>, <<10, 1>>, <<20, 1>>, <<25, 1>>}

DoubleRight == {<<0, 1>>, <<5, 2>>, <<2, 1>>, <<981, 100>>}

IntLeft == {<<0, 1>>, <<10, 1>>, <<-7, 1>>}

IntRight == {<<0, 1>>, <<2, 1>>, <<3, 1>>}

\* the example declarations over a range of scalars of either precision
ValueSweep ==
    { <<Quantity(dd[1], "double", a), Quantity(dd[2], "double", b)>> :
          dd \in ExampleDims, a \in DoubleLeft, b \in DoubleRight }
    \cup
    { <<Quantity(dd[1], "int", a), Quantity(dd[2], "int", b)>> :
          dd \in ExampleDims, a \in IntLeft, b \in IntRight }

\* the example declarations with operands of two different precisions
PrecisionSweep ==
    { <<Quantity(dd[1], "double", <<6, 1>>), Quantity(dd[2], "int", <<3, 1>>)>> :
          dd \in ExampleDims }
    \cup
    { <<Quantity(dd[1], "int", <<6, 1>>), Quantity(dd[2], "double", <<3, 1>>)>> :
          dd \in ExampleDims }

Operands == TypeSweep \cup ValueSweep \cup PrecisionSweep

\* scalars assigned through value()
Assigned(T) == IF T = "int" THEN {<<4, 1>>} ELSE {<<4, 1>>, <<1, 4>>}

Init ==
    /\ \E xy \in Operands : x = xy[1] /\ y = xy[2]
    /\ op = "declare"
    /\ target = NoTarget
    /\ res = NoStatement
    /\ nmut = 0

\* x + y;
Plus ==
    /\ op' = "+"
    /\ res' = operator_plus(x, y)
    /\ target' = NoTarget
    /\ UNCHANGED <<x, y, nmut>>

\* x - y;
Minus ==
    /\ op' = "-"
    /\ res' = operator_minus(x, y)
    /\ target' = NoTarget
    /\ UNCHANGED <<x, y, nmut>>

\* x * y;
Times ==
    /\ op' = "*"
    /\ res' = operator_times(x, y)
    /\ target' = NoTarget
    /\ UNCHANGED <<x, y, nmut>>

\* x / y;
Divides ==
    /\ op' = "/"
    /\ res' \in operator_divides(x, y)
    /\ target' = NoTarget
    /\ UNCHANGED <<x, y, nmut>>

\* sqrt(x);
Sqrt ==
    /\ op' = "sqrt"
    /\ res' = sqrt(x)
    /\ target' = NoTarget
    /\ UNCHANGED <<x, y, nmut>>

\* Quantity<D, T> c(x);   (the copy constructor when <D, T> is x's own type)
ConvertOperand(D, T) ==
    /\ op' = "convert"
    /\ target' = [dim |-> D, prec |-> T]
    /\ res' = ConvertingConstructor(D, T, x)
    /\ UNCHANGED <<x, y, nmut>>

\* Quantity<D, T> c = x * y;   with T the precision of x
ConvertProduct(D) ==
    /\ op' = "convert*"
    /\ target' = [dim |-> D, prec |-> x.prec]
    /\ res' = ConvertingConstructor(D, x.prec, operator_times(x, y))
    /\ UNCHANGED <<x, y, nmut>>

\* Quantity<D, T> c = x / y;   with T the precision of x
ConvertQuotient(D) ==
    /\ op' = "convert/"
    /\ target' = [dim |-> D, prec |-> x.prec]
    /\ \E q \in operator_divides(x, y) :
          res' = ConvertingConstructor(D, x.prec, q)
    /\ UNCHANGED <<x, y, nmut>>

\* x += y;
PlusAssign ==
    /\ nmut < MaxMut
    /\ op' = "+="
    /\ LET r == operator_plus_assign(x, y)
       IN  /\ x' = r.self
           /\ res' = r.ret
           /\ nmut' = IF IsQuantity(r.ret) THEN nmut + 1 ELSE nmut
    /\ target' = NoTarget
    /\ UNCHANGED y

\* x -= y;
MinusAssign ==
    /\ nmut < MaxMut
    /\ op' = "-="
    /\ LET r == operator_minus_assign(x, y)
       IN  /\ x' = r.self
           /\ res' = r.ret
           /\ nmut' = IF IsQuantity(r.ret) THEN nmut + 1 ELSE nmut
    /\ target' = NoTarget
    /\ UNCHANGED y

\* x = y;
Assign ==
    /\ nmut < MaxMut
    /\ op' = "="
    /\ LET r == operator_assign(x, y)
       IN  /\ x' = r.self
           /\ res' = r.ret
           /\ nmut' = IF IsQuantity(r.ret) THEN nmut + 1 ELSE nmut
    /\ target' = NoTarget
    /\ UNCHANGED y

\* x.value() = v;
ValueAssign(v) ==
    /\ nmut < MaxMut
    /\ op' = "value="
    /\ x' = value_assign(x, v)
    /\ res' = NoStatement
    /\ nmut' = nmut + 1
    /\ target' = NoTarget
    /\ UNCHANGED y

Comparisons == {"<", "<=", ">", ">=", "==", "!="}

\* x < y;  x <= y;  x > y;  x >= y;  x == y;  x != y;
Compare(c) ==
    /\ op' = c
    /\ res' = CASE c = "<"  -> operator_less(x, y)
                 [] c = "<=" -> operator_less_equal(x, y)
                 [] c = ">"  -> operator_greater(x, y)
                 [] c = ">=" -> operator_greater_equal(x, y)
                 [] c = "==" -> operator_equal(x, y)
                 [] c = "!=" -> operator_not_equal(x, y)
    /\ target' = NoTarget
    /\ UNCHANGED <<x, y, nmut>>

\* Quantity<D, T> c;  for the Dimension of x and either Precision
DefaultConstruct(T) ==
    /\ op' = "default"
    /\ target' = [dim |-> x.dim, prec |-> T]
    /\ res' = DefaultQuantity(x.dim, T)
    /\ UNCHANGED <<x, y, nmut>>

\* Quantity<D, T> c;  c == Quantity<D, T>(0);
DefaultEqualsZero(T) ==
    /\ op' = "default==0"
    /\ target' = [dim |-> x.dim, prec |-> T]
    /\ res' = operator_equal(DefaultQuantity(x.dim, T), Quantity(x.dim, T, <<0, 1>>))
    /\ UNCHANGED <<x, y, nmut>>

Next ==
    \/ Plus
    \/ Minus
    \/ Times
    \/ Divides
    \/ Sqrt
    \/ \E D \in NamedDims, T \in Precisions : ConvertOperand(D, T)
    \/ \E D \in NamedDims : ConvertProduct(D)
    \/ \E D \in NamedDims : ConvertQuotient(D)
    \/ PlusAssign
    \/ MinusAssign
    \/ Assign
    \/ \E v \in Assigned(x.prec) : ValueAssign(v)
    \/ \E c \in Comparisons : Compare(c)
    \/ \E T \in Precisions : DefaultConstruct(T)
    \/ \E T \in Precisions : DefaultEqualsZero(T)

Spec == Init /\ [][Next]_vars

----------------------------------------------------------------------------
(* The dimension algebra on its own: the left operand is declared with any *)
(* vector_c whose four exponents lie within MaxExp, the right operand with  *)
(* a typedef of namespace dims, and the statements are those whose type is  *)
(* computed by the metafunctions of namespace Internal.                     *)

\* largest magnitude of an exponent of the left operand's dimension
MaxExp == 2

\* mpl::vector_c<int, t, m, l, a, 0, 0, 0, 0, DQ_DIMPAD>
BoxDims ==
    { <<t, m, l, a, 0, 0, 0, 0>> \o DQ_DIMPAD : t, m, l, a \in -MaxExp..MaxExp }

InitAlgebra ==
    /\ \E D1 \in BoxDims, D2 \in NamedDims :
          /\ x = Quantity(D1, DefaultPrecision, <<6, 1>>)
          /\ y = Quantity(D2, DefaultPrecision, <<3, 1>>)
    /\ op = "declare"
    /\ target = NoTarget
    /\ res = NoStatement
    /\ nmut = 0

\* (x * y) / y;
TimesDivides ==
    /\ op' = "(*)/"
    /\ LET p == operator_times(x, y)
       IN  res' \in (IF IsQuantity(p) THEN operator_divides(p, y) ELSE {p})
    /\ target' = NoTarget
    /\ UNCHANGED <<x, y, nmut>>

\* sqrt(x) * sqrt(x);
SqrtSquared ==
    /\ op' = "sqrt*sqrt"
    /\ LET r == sqrt(x)
       IN  res' = IF IsQuantity(r) THEN operator_times(r, r) ELSE r
    /\ target' = NoTarget
    /\ UNCHANGED <<x, y, nmut>>

\* typedef typename Internal::sqrt_dimensions<D>::type H;
\* Quantity<typename Internal::multiply_dimensions<H, H>::type, T> c = x;
SqrtDimensionsSquared ==
    /\ op' = "sqrt_dimensions^2"
    /\ LET H  == sqrt_dimensions(x.dim)
           HH == IF H = NoType THEN NoType ELSE multiply_dimensions(H, H)
       IN  /\ target' = [dim |-> HH, prec |-> x.prec]
           /\ res' = IF HH = NoType THEN IllFormed
                     ELSE ConvertingConstructor(HH, x.prec, x)
    /\ UNCHANGED <<x, y, nmut>>

NextAlgebra ==
    \/ Times
    \/ Divides
    \/ TimesDivides
    \/ SqrtSquared
    \/ SqrtDimensionsSquared
    \/ \E D \in {x.dim} : ConvertProduct(D)
    \/ \E D \in {x.dim} : ConvertQuotient(D)

SpecAlgebra == InitAlgebra /\ [][NextAlgebra]_vars

----------------------------------------------------------------------------
(* Properties.  The scalar relations are stated by cross-multiplication,   *)
(* the dimension relations axis by axis.                                   *)

Axes == 1..20

SameType(l, r) == (\A i \in Axes : l.dim[i] = r.dim[i]) /\ l.prec = r.prec

\* the pair s denotes the fraction num / den (den > 0): both are the same
\* multiple of s's numerator and denominator
IsFraction(s, num, den) ==
    /\ s[2] > 0
    /\ LET k == den \div s[2]
       IN  k * s[2] = den /\ k * s[1] = num

\* s = a + b, s = a - b, s = a * b on finite scalars
IsSum(s, a, b) == IsFraction(s, a[1] * b[2] + b[1] * a[2], a[2] * b[2])

IsDifference(s, a, b) == IsFraction(s, a[1] * b[2] - b[1] * a[2], a[2] * b[2])

IsProduct(s, a, b) == IsFraction(s, a[1] * b[1], a[2] * b[2])

\* q = a / b for b # 0: the exact quotient of two doubles, the quotient
\* truncated toward zero of two ints
IsQuotient(T, q, a, b) ==
    IF T = "int"
    THEN LET rem == a[1] - q[1] * b[1]
         IN  /\ q[2] = 1
             /\ Abs(rem) < Abs(b[1])
             /\ rem = 0 \/ Sgn(rem) = Sgn(a[1])
    ELSE IsFraction(q, Sgn(b[1]) * a[1] * b[2], a[2] * Abs(b[1]))

\* C1: x + y and x - y are defined exactly when x and y have the same
\* Dimension and Precision; then the result has that Dimension and
\* Precision and holds the scalar sum / difference; for dimensions that
\* differ on any axis the expression is rejected and there is no value.
C1_AddSubSameDimension ==
    /\ op = "+" =>
          IF SameType(x, y)
          THEN /\ IsQuantity(res)
               /\ SameType(res, x)
               /\ IsSum(res.value, x.value, y.value)
          ELSE res = IllFormed
    /\ op = "-" =>
          IF SameType(x, y)
          THEN /\ IsQuantity(res)
               /\ SameType(res, x)
               /\ IsDifference(res.value, x.value, y.value)
          ELSE res = IllFormed

\* Quantity<mass> + Quantity<length> has been attempted and was rejected
C1_Witness ==
    /\ op = "+"
    /\ x.dim = mass /\ y.dim = length /\ x.prec = y.prec
    /\ res = IllFormed

C3_DivideSubtractsExponents ==
    /\ (op = "/" /\ x.prec = y.prec /\ y.value[1] # 0) =>
          /\ IsQuantity(res)
          /\ Len(res.dim) = 20
          /\ \A i \in Axes : res.dim[i] = x.dim[i] - y.dim[i]
          /\ res.prec = x.prec
          /\ IsQuotient(x.prec, res.value, x.value, y.value)
    /\ ( /\ op = "/"
         /\ x = Quantity(length, "double", <<10, 1>>)
         /\ y = Quantity(length, "double", <<2, 1>>) ) =>
          /\ IsQuantity(res)
          /\ \A i \in Axes : res.dim[i] = 0
          /\ res.value = <<5, 1>>

\* 10.0 m / 2.0 m has been computed
C3_Witness ==
    /\ op = "/"
    /\ x = Quantity(length, "double", <<10, 1>>)
    /\ y = Quantity(length, "double", <<2, 1>>)
    /\ res = Quantity(dimensionless, "double", <<5, 1>>)

\* the dimension of the expression a conversion statement converts from
SourceDimension(i) ==
    IF op = "convert" THEN x.dim[i]
    ELSE IF op = "convert*" THEN x.dim[i] + y.dim[i]
    ELSE x.dim[i] - y.dim[i]

\* the conversion statement has a source value of the target's Precision
ConvertsValue ==
    /\ op \in {"convert", "convert*", "convert/"}
    /\ op = "convert" => target.prec = x.prec
    /\ op # "convert" => x.prec = y.prec
    /\ op = "convert/" => ~(x.prec = "int" /\ y.value[1] = 0)

\* C4: constructing Quantity<D> from a Quantity<OtherD> of the same
\* Precision succeeds if and only if D and OtherD agree on every axis,
\* whether OtherD is a named dimension or computed by * or /; then the new
\* Quantity has dimension D and the source's scalar, and otherwise the
\* construction is rejected and yields no value.
C4_ConvertIffEqualDimensions ==
    ConvertsValue =>
       IF \A i \in Axes : target.dim[i] = SourceDimension(i)
       THEN /\ IsQuantity(res)
            /\ res.dim = target.dim /\ res.prec = target.prec
            /\ op = "convert" => res.value = x.value
            /\ op = "convert*" => IsProduct(res.value, x.value, y.value)
            /\ (op = "convert/" /\ y.value[1] # 0) =>
                  IsQuotient(x.prec, res.value, x.value, y.value)
       ELSE res = IllFormed

\* a length over a time has been converted to a speed
C4_Witness ==
    /\ op = "convert/"
    /\ x.dim = length /\ y.dim = time /\ target.dim = speed
    /\ IsQuantity(res) /\ res.dim = speed

\* D1 * D2 == D on every axis, D1 / D2 == D on every axis
ProductIs(D1, D2, D) == Len(D) = 20 /\ \A i \in Axes : D1[i] + D2[i] = D[i]

QuotientIs(D1, D2, D) == Len(D) = 20 /\ \A i \in Axes : D1[i] - D2[i] = D[i]

\* the statement just executed converted D1 * D2 (D1 / D2) to a named type
ConvertedProductOf(D1, D2) ==
    op = "convert*" /\ x.dim = D1 /\ y.dim = D2 /\ x.prec = y.prec

ConvertedQuotientOf(D1, D2) ==
    /\ op = "convert/" /\ x.dim = D1 /\ y.dim = D2 /\ x.prec = y.prec
    /\ ~(x.prec = "int" /\ y.value[1] = 0)

\* C5: the named constants agree with the algebra on all 20 axes:
\* mass * accel == force, force * length == torque, length / time == speed,
\* speed / time == accel; so each of these expressions converts to the
\* named type on the right, and among the named types only to one equal
\* to it.
C5_NamedConstantsConsistent ==
    /\ ProductIs(mass, accel, force)
    /\ ProductIs(force, length, torque)
    /\ QuotientIs(length, time, speed)
    /\ QuotientIs(speed, time, accel)
    /\ mpl_equal(multiply_dimensions(mass, accel), force)
    /\ mpl_equal(multiply_dimensions(force, length), torque)
    /\ mpl_equal(divide_dimensions(length, time), speed)
    /\ mpl_equal(divide_dimensions(speed, time), accel)
    /\ ConvertedProductOf(mass, accel) => (IsQuantity(res) <=> target.dim = force)
    /\ ConvertedProductOf(force, length) => (IsQuantity(res) <=> target.dim = torque)
    /\ ConvertedQuotientOf(length, time) => (IsQuantity(res) <=> target.dim = speed)
    /\ ConvertedQuotientOf(speed, time) => (IsQuantity(res) <=> target.dim = accel)

\* a force times a length has been converted to a torque
C5_Witness ==
    /\ ConvertedProductOf(force, length)
    /\ target.dim = torque
    /\ IsQuantity(res) /\ res.dim = torque

\* C6: stiffness is the dimension of newtons per metre, kg/s^2: it equals
\* force / length, with exponents time -2, mass 1, length 0 and 0 on every
\* other axis; so a force divided by a length converts to
\* Quantity<stiffness> (SI::NewtonsPerMeter).
C6_StiffnessIsForcePerLength ==
    (ConvertedQuotientOf(force, length) /\ target.dim = stiffness) =>
        /\ IsQuantity(res)
        /\ mpl_equal(target.dim, divide_dimensions(force, length))
        /\ target.dim[1] = -2 /\ target.dim[2] = 1 /\ target.dim[3] = 0
        /\ \A i \in 4..20 : target.dim[i] = 0

\* C7: viscosity is the dimension of newton-seconds per metre, kg/s: it
\* equals (force * time) / length and mass / time, with exponents time -1,
\* mass 1, length 0 and 0 on every other axis; so a mass divided by a time
\* converts to Quantity<viscosity> (SI::KilogramsPerSecond).
C7_ViscosityIsMassPerTime ==
    (ConvertedQuotientOf(mass, time) /\ target.dim = viscosity) =>
        /\ IsQuantity(res)
        /\ mpl_equal(target.dim, divide_dimensions(mass, time))
        /\ mpl_equal(target.dim,
                     divide_dimensions(multiply_dimensions(force, time), length))
        /\ target.dim[1] = -1 /\ target.dim[2] = 1 /\ target.dim[3] = 0
        /\ \A i \in 4..20 : target.dim[i] = 0

\* C8: sqrt of a Quantity whose exponents are all even is a Quantity whose
\* dimension has every exponent halved (the root of an area converts to a
\* length) and whose scalar is the square root of the operand's (the root
\* of the area 25 is the length 5).
C8_SqrtHalvesExponents ==
    (op = "sqrt" /\ \A i \in Axes : x.dim[i] % 2 = 0) =>
        /\ IsQuantity(res)
        /\ \A i \in Axes : 2 * res.dim[i] = x.dim[i]
        /\ res.prec = x.prec
        /\ x.value[1] >= 0 => IsProduct(x.value, res.value, res.value)
        /\ x.value = <<25, 1>> => res.value = <<5, 1>>
        /\ x.dim = area => IsQuantity(ConvertingConstructor(length, x.prec, res))

C10_AccumulateInPlace ==
    [][ /\ (op' = "+=" /\ SameType(x, y)) =>
               /\ IsSum(x'.value, x.value, y.value)
               /\ IsQuantity(res') /\ res'.value = x'.value
               /\ SameType(res', x)
               /\ y' = y
               /\ x'.dim = x.dim
               /\ (x.value = <<3, 2>> /\ y.value = <<5, 2>>) => x'.value = <<4, 1>>
        /\ (op' = "-=" /\ SameType(x, y)) =>
               /\ IsDifference(x'.value, x.value, y.value)
               /\ IsQuantity(res') /\ res'.value = x'.value
               /\ SameType(res', x)
               /\ y' = y
               /\ x'.dim = x.dim
        /\ (op' \in {"+=", "-="} /\ ~SameType(x, y)) =>
               /\ res' = IllFormed
               /\ x' = x /\ y' = y ]_vars

\* Quantity<length>(1.5) += Quantity<length>(2.5) has left 4.0 in x
C10_Witness ==
    /\ op = "+="
    /\ x = Quantity(length, "double", <<4, 1>>)
    /\ y = Quantity(length, "double", <<5, 2>>)
    /\ res = x
    /\ nmut = 1

\* the reserved axes of a dimension, after time, mass, length and angle
PaddingAxes == 5..20

\* a valid dimension vector: 20 exponents, the reserved ones zero
ValidDimension(D) == Len(D) = 20 /\ \A i \in PaddingAxes : D[i] = 0

\* C11: for valid dimensions D1 of x and D2 of y, the dimension of x * y and
\* of x / y is again a vector of 20 exponents with every reserved axis zero,
\* and dividing the product by D2 gives back D1: divide_dimensions(
\* multiply_dimensions(D1, D2), D2) == D1, so (x * y) / y has x's dimension.
C11_ClosedAndInverse ==
    (ValidDimension(x.dim) /\ ValidDimension(y.dim)) =>
        /\ op \in {"*", "/"} => (IsQuantity(res) /\ ValidDimension(res.dim))
        /\ op = "*" =>
              /\ ValidDimension(divide_dimensions(res.dim, y.dim))
              /\ \A i \in Axes : divide_dimensions(res.dim, y.dim)[i] = x.dim[i]
        /\ op = "(*)/" =>
              /\ IsQuantity(res)
              /\ ValidDimension(res.dim)
              /\ \A i \in Axes : res.dim[i] = x.dim[i]

\* (x * y) / y has been computed for an x of exponents 2, -1, 0, 1 and a force
C11_Witness ==
    /\ op = "(*)/"
    /\ x.dim[1] = 2 /\ x.dim[2] = -1 /\ x.dim[3] = 0 /\ x.dim[4] = 1
    /\ y.dim = force
    /\ IsQuantity(res) /\ res.dim = x.dim

\* C12: for every dimension D whose exponents are all even, the halved
\* dimension multiplied by itself is D again: multiply_dimensions(
\* sqrt_dimensions(D), sqrt_dimensions(D)) == D, sqrt_dimensions being the
\* halving that gives sqrt its result type; so a Quantity<D> converts to the
\* squared halved dimension, and sqrt(x) * sqrt(x) has x's dimension.
C12_SqrtRoundTrip ==
    (\A i \in Axes : x.dim[i] % 2 = 0) =>
        /\ op = "sqrt_dimensions^2" =>
              /\ IsQuantity(res)
              /\ Len(target.dim) = 20
              /\ \A i \in Axes : target.dim[i] = x.dim[i]
        /\ op = "sqrt*sqrt" =>
              /\ IsQuantity(res)
              /\ \A i \in Axes : res.dim[i] = x.dim[i]

\* C13: dimensionless is the identity of the algebra: for every dimension D
\* of x and a dimensionless y, multiply_dimensions(D, dimensionless) == D and
\* divide_dimensions(D, dimensionless) == D, so x * y and x / y have x's
\* dimension and convert back to Quantity<D>.
C13_DimensionlessIsIdentity ==
    y.dim = dimensionless =>
        /\ mpl_equal(multiply_dimensions(x.dim, dimensionless), x.dim)
        /\ mpl_equal(divide_dimensions(x.dim, dimensionless), x.dim)
        /\ op \in {"*", "/"} =>
              /\ IsQuantity(res)
              /\ Len(res.dim) = 20
              /\ \A i \in Axes : res.dim[i] = x.dim[i]
        /\ (op \in {"convert*", "convert/"} /\ target.dim = x.dim) =>
              /\ IsQuantity(res)
              /\ res.dim = x.dim

\* x / y, for an x of exponents -2, 0, 1, 2 and a dimensionless y, has been
\* converted back to x's type
C13_Witness ==
    /\ op = "convert/"
    /\ y.dim = dimensionless
    /\ x.dim[1] = -2 /\ x.dim[2] = 0 /\ x.dim[3] = 1 /\ x.dim[4] = 2
    /\ target.dim = x.dim
    /\ IsQuantity(res) /\ res.dim = x.dim

\* the sign of a - b for finite scalars a and b
Order(a, b) == Sgn(a[1] * b[2] - b[1] * a[2])

\* C14: for x and y of one Dimension and Precision each of x == y, x != y,
\* x < y, x <= y, x > y, x >= y returns what the same comparison of
\* x.value() with y.value() gives, x on the left, and leaves x and y as
\* they were.
C14_ComparisonsAgreeWithScalars ==
    [][ (op' \in Comparisons /\ SameType(x, y)
            /\ IsFinite(x.value) /\ IsFinite(y.value)) =>
           /\ x' = x /\ y' = y
           /\ res'.kind = "bool"
           /\ op' = "<"  => (res'.value <=> Order(x.value, y.value) < 0)
           /\ op' = "<=" => (res'.value <=> Order(x.value, y.value) <= 0)
           /\ op' = ">"  => (res'.value <=> Order(x.value, y.value) > 0)
           /\ op' = ">=" => (res'.value <=> Order(x.value, y.value) >= 0)
           /\ op' = "==" => (res'.value <=> Order(x.value, y.value) = 0)
           /\ op' = "!=" => (res'.value <=> Order(x.value, y.value) # 0) ]_vars

\* Quantity<length>(1.5) < Quantity<length>(2.5) has been found true
C14_Witness ==
    /\ op = "<"
    /\ x = Quantity(length, "double", <<3, 2>>)
    /\ y = Quantity(length, "double", <<5, 2>>)
    /\ res = Bool(TRUE)

\* C15: a Quantity constructed without an argument holds the zero of its
\* Precision, whatever its Dimension and Precision, and compares equal to
\* the Quantity of the same type constructed from 0.
C15_DefaultIsZero ==
    /\ op = "default" =>
          /\ IsQuantity(res)
          /\ res.dim = target.dim /\ res.prec = target.prec
          /\ res.value = <<0, 1>>
    /\ op = "default==0" => res = Bool(TRUE)

\* Quantity<torque, int> c; has been declared and holds 0
C15_Witness ==
    /\ op = "default"
    /\ target = [dim |-> torque, prec |-> "int"]
    /\ IsQuantity(res) /\ res.value = <<0, 1>>

\* C16: two different names of namespace dims name two different exponent
\* vectors, so a statement that adds, subtracts or compares a Quantity
\* declared under one name and a Quantity declared under another (stiffness
\* and accel, viscosity and speed), or converts the one to the other's
\* type, is rejected.
C16_DifferentNamesRejected ==
    \A n1, n2 \in DOMAIN dims :
        (n1 # n2 /\ x.dim = dims[n1]) =>
            /\ (y.dim = dims[n2]
                  /\ op \in {"+", "-", "+=", "-="} \cup Comparisons) =>
                     (dims[n1] # dims[n2] /\ res = IllFormed)
            /\ (target.dim = dims[n2] /\ op = "convert") =>
                     (dims[n1] # dims[n2] /\ res = IllFormed)

====
